---- MODULE Spec2Model ----
(***************************************************************************)
(* feathers-google-datastore: the adapter factory of src/src/index.js (the *)
(* last of the iterations the file holds, lines 586-1161), with the        *)
(* stand-alone resolveConfig of the second iteration (lines 544-583).      *)
(*                                                                         *)
(* JavaScript values are tagged records.  Every tag keeps its payload in a *)
(* field of its own, so two values of different JavaScript types are       *)
(* different records and are never compared payload against payload.       *)
(***************************************************************************)
EXTENDS Integers, Sequences, FiniteSets, TLC

VARIABLES options, env, constructed, adapter, clientLog, ret, calls

vars == <<options, env, constructed, adapter, clientLog, ret, calls>>

-----------------------------------------------------------------------------
(* JavaScript values *)

Undef == [t |-> "undefined"]

Null == [t |-> "null"]

Str(s) == [t |-> "string", s |-> s]

Num(n) == [t |-> "number", n |-> n]

Bool(b) == [t |-> "boolean", b |-> b]

False == Bool(FALSE)

True == Bool(TRUE)

\* an array object: ref is its identity (=== compares arrays by identity)
Arr(r, elems) == [t |-> "array", ref |-> r, a |-> elems]

\* typeof x
TypeOf(x) ==
  IF x.t \in {"array", "null", "object", "config", "int", "prekey"} THEN "object" ELSE x.t

\* ToBoolean(x): what `if (x)`, `x && ...` and `x || ...` test
Truthy(x) ==
  CASE x.t = "undefined" -> FALSE
    [] x.t = "null" -> FALSE
    [] x.t = "string" -> x.s # ""
    [] x.t = "number" -> x.n # 0
    [] x.t = "boolean" -> x.b
    [] OTHER -> TRUE

\* Array.isArray(x)
IsArray(x) == x.t = "array"

\* the value a raised TypeError leaves in place of a result
Thrown(what) == [t |-> "throw", error |-> "TypeError", what |-> what]

IsThrown(x) == x.t = "throw"

-----------------------------------------------------------------------------
(* Inputs: construction options and the process environment *)

\* options.model.credentials
Credentials(email, key) == [t |-> "object", client_email |-> email, private_key |-> key]

\* options.model
ModelOptions(p, k, c) == [t |-> "object", projectId |-> p, keyFilename |-> k, credentials |-> c]

\* the options object handed to the factory; a missing property reads undefined
Options(m, dk, ako, dn, ano) ==
  [t |-> "object", model |-> m, defaultKind |-> dk, allowKindOverwrite |-> ako,
   defaultNamespace |-> dn, allowNamespaceOverwrite |-> ano]

\* process.env: a variable is unset (undefined) or a string, possibly empty
Env(p, k) == [GCLOUD_PROJECT |-> p, GOOGLE_APPLICATION_CREDENTIALS |-> k]

CredentialsValues ==
  {Undef} \cup {Credentials(e, k) : e \in {Undef, Str("svc@x")}, k \in {Undef, Str("PEM")}}

ModelValues ==
  {Undef} \cup {ModelOptions(p, k, c) : p \in {Undef, Str(""), Str("proj")},
                                        k \in {Undef, Str(""), Str("key.json")},
                                        c \in CredentialsValues}

EnvValues ==
  {Env(p, k) : p \in {Undef, Str(""), Str("envproj")},
               k \in {Undef, Str(""), Str("envkey.json")}}

KindValues ==
  {Undef, Str(""), Str("Tag"), Num(5), Arr("opt", <<>>),
   Arr("opt", <<Str("Company"), Str("Tag")>>), Arr("opt", <<Num(1)>>)}

FlagValues == {Undef, False, True, Str("yes")}

NamespaceValues == {Undef, Str(""), Str("NS1"), Num(5)}

\* options of the credential cases: only model varies
CredentialOptions ==
  {Undef} \cup {Options(m, Undef, Undef, Undef, Undef) : m \in ModelValues}

\* options of the access-config cases: model is left out
AccessOptions ==
  {Options(Undef, dk, ako, dn, ano) : dk \in KindValues, ako \in FlagValues,
                                      dn \in NamespaceValues, ano \in FlagValues}

-----------------------------------------------------------------------------
(* CredentialResolver *)

\* the config object resolveDatastoreConfig builds; a field never set is undefined
Config(p, k, c) == [t |-> "config", projectId |-> p, keyFilename |-> k, credentials |-> c]

\* resolveCredentialsBranch with the bailout of incomplete credentials left out
resolveCredentialsBranch_NoBailout(o, projectId) ==
  IF /\ TypeOf(o.credentials) # "undefined"
     /\ TypeOf(o.credentials.client_email) # "undefined"
     /\ TypeOf(o.credentials.private_key) # "undefined"
  THEN False
  ELSE Config(projectId, Undef, Undef)

\* lines 1139-1150: the explicit-credentials branch.  Both arms of the test
\* leave the function with false: the then-arm stores the credentials in
\* config and falls through to the `return false` of line 1150.
resolveCredentialsBranch(o, projectId) ==
  IF /\ TypeOf(o.credentials) # "undefined"
     /\ TypeOf(o.credentials.client_email) # "undefined"
     /\ TypeOf(o.credentials.private_key) # "undefined"
  THEN False
  ELSE False

\* resolveKeyFilenameBranch with the environment variable tested first
resolveKeyFilenameBranch_EnvFirst(o, e, projectId) ==
  IF Truthy(e.GOOGLE_APPLICATION_CREDENTIALS)
  THEN Config(projectId, e.GOOGLE_APPLICATION_CREDENTIALS, Undef)
  ELSE IF TypeOf(o.keyFilename) # "undefined" /\ Truthy(o.keyFilename)
       THEN Config(projectId, o.keyFilename, Undef)
       ELSE resolveCredentialsBranch(o, projectId)

\* lines 1128-1152: keyFilename from the options, else from the environment
resolveKeyFilenameBranch(o, e, projectId) ==
  IF TypeOf(o.keyFilename) # "undefined" /\ Truthy(o.keyFilename)
  THEN Config(projectId, o.keyFilename, Undef)
  ELSE IF Truthy(e.GOOGLE_APPLICATION_CREDENTIALS)
       THEN Config(projectId, e.GOOGLE_APPLICATION_CREDENTIALS, Undef)
       ELSE resolveCredentialsBranch(o, projectId)

\* resolveDatastoreConfig without the bailout on a missing project id
resolveDatastoreConfig_NoProjectBailout(o, e) ==
  IF TypeOf(o.projectId) # "undefined" /\ Truthy(o.projectId)
  THEN resolveKeyFilenameBranch(o, e, o.projectId)
  ELSE resolveKeyFilenameBranch(o, e, e.GCLOUD_PROJECT)

\* resolveDatastoreConfig(options.model): false, or the config object
resolveDatastoreConfig(o, e) ==
  IF TypeOf(o.projectId) # "undefined" /\ Truthy(o.projectId)
  THEN resolveKeyFilenameBranch(o, e, o.projectId)
  ELSE IF Truthy(e.GCLOUD_PROJECT)
       THEN resolveKeyFilenameBranch(o, e, e.GCLOUD_PROJECT)
       ELSE False

\* The second iteration's resolveConfig(config, debug, error), called as
\* resolveConfig(options.model): `var config = {}` replaces the argument, so
\* the options are never read, and debug is undefined, so every branch that
\* logs raises a TypeError.
resolveConfig_v2(o, e) ==
  LET projectId == IF Truthy(e.GCLOUD_PROJECT) THEN e.GCLOUD_PROJECT ELSE False
      keyFilename == IF Truthy(e.GOOGLE_APPLICATION_CREDENTIALS)
                     THEN e.GOOGLE_APPLICATION_CREDENTIALS ELSE False
  IN IF projectId = False THEN Thrown("debug is not a function")
     ELSE IF keyFilename = False THEN Thrown("debug is not a function")
     ELSE Config(projectId, keyFilename, Undef)

-----------------------------------------------------------------------------
(* AccessConfigResolver *)

\* isValidKind(kind): typeof kind == "string" || (Array.isArray(kind) && kind.length)
isValidKind(kind) == TypeOf(kind) = "string" \/ (IsArray(kind) /\ Len(kind.a) # 0)

\* adapter.config of the adapter literal
AccessConfig(dk, ako, dn, ano) ==
  [defaultKind |-> dk, allowKindOverwrite |-> ako,
   defaultNamespace |-> dn, allowNamespaceOverwrite |-> ano]

\* resolveConfig with the flags set as soon as their option is defined
resolveConfig_FlagIfDefined(a, o) ==
  LET given == TypeOf(o) # "undefined"
      dk == IF given /\ isValidKind(o.defaultKind) THEN o.defaultKind ELSE a.config.defaultKind
      ako == IF given /\ TypeOf(o.allowKindOverwrite) # "undefined"
             THEN True ELSE a.config.allowKindOverwrite
      dn == IF given /\ TypeOf(o.defaultNamespace) = "string"
            THEN o.defaultNamespace ELSE a.config.defaultNamespace
      ano == IF given /\ TypeOf(o.allowNamespaceOverwrite) # "undefined"
             THEN True ELSE a.config.allowNamespaceOverwrite
  IN [a EXCEPT !.config = AccessConfig(dk, ako, dn, ano)]

\* resolveConfig(options): its four assignments to adapter.config
resolveConfig(a, o) ==
  LET given == TypeOf(o) # "undefined"
      dk == IF given /\ isValidKind(o.defaultKind) THEN o.defaultKind ELSE a.config.defaultKind
      ako == IF given /\ TypeOf(o.allowKindOverwrite) # "undefined" /\ Truthy(o.allowKindOverwrite)
             THEN True ELSE a.config.allowKindOverwrite
      dn == IF given /\ TypeOf(o.defaultNamespace) = "string"
            THEN o.defaultNamespace ELSE a.config.defaultNamespace
      ano == IF given /\ TypeOf(o.allowNamespaceOverwrite) # "undefined"
                /\ Truthy(o.allowNamespaceOverwrite)
             THEN True ELSE a.config.allowNamespaceOverwrite
  IN [a EXCEPT !.config = AccessConfig(dk, ako, dn, ano)]

-----------------------------------------------------------------------------
(* The adapter and its store client *)

\* Datastore(...): the handle the client library returns for an argument list
Datastore(args) == [t |-> "datastore", args |-> args]

\* the adapter literal of the factory, before setupDatastore and resolveConfig
AdapterLiteral ==
  [datastoreConfig |-> Null, datastore |-> Null,
   config |-> AccessConfig(False, False, False, False),
   app |-> Null, path |-> Str("")]

\* datastoreArgs passing the resolved value whatever it is
datastoreArgs_AlwaysPassed(dsc) == <<dsc>>

\* the argument list setupDatastore hands to Datastore
datastoreArgs(dsc) == IF Truthy(dsc) THEN <<dsc>> ELSE <<>>

\* setupDatastore(options): sets datastoreConfig and creates the client
setupDatastore(a, o, e) ==
  LET dsc == IF TypeOf(o) # "undefined" /\ TypeOf(o.model) # "undefined"
             THEN resolveDatastoreConfig(o.model, e)
             ELSE False
  IN [a EXCEPT !.datastoreConfig = dsc, !.datastore = Datastore(datastoreArgs(dsc))]

\* datastoreAdapter(options): setupDatastore, then resolveConfig
Construct ==
  /\ ~constructed
  /\ LET a1 == setupDatastore(adapter, options, env)
     IN /\ adapter' = resolveConfig(a1, options)
        /\ clientLog' = Append(clientLog, a1.datastore.args)
  /\ constructed' = TRUE
  /\ UNCHANGED <<options, env, ret, calls>>

-----------------------------------------------------------------------------
(* KeyResolver *)

\* the params bag of a call; a missing property reads undefined
Params(k, n, q) == [t |-> "object", kind |-> k, namespace |-> n, query |-> q]

ParamKindValues ==
  {Undef, Str(""), Str("Other"), Num(7), Arr("par", <<>>),
   Arr("par", <<Str("Company"), Str("Tag")>>), Arr("par", <<Num(1)>>)}

ParamNamespaceValues == {Undef, Str(""), Str("NS2"), Num(5)}

\* params of the resolver cases: omitted, or an object
ParamsValues ==
  {Undef} \cup {Params(k, n, Undef) : k \in ParamKindValues, n \in ParamNamespaceValues}

\* resolveKind without the test of allowKindOverwrite
resolveKind_FlagIgnored(a, params) ==
  IF params.t = "undefined" THEN a.config.defaultKind
  ELSE IF isValidKind(params.kind) THEN params.kind ELSE a.config.defaultKind

\* resolveKind(params).  Reading params.kind of an omitted params raises a
\* TypeError; `typeof params.kind != undefined` compares a string with
\* undefined and is always true.
resolveKind(a, params) ==
  IF Truthy(a.config.allowKindOverwrite)
  THEN IF params.t = "undefined" THEN Thrown("cannot read property kind of undefined")
       ELSE IF isValidKind(params.kind) THEN params.kind ELSE a.config.defaultKind
  ELSE a.config.defaultKind

\* resolveNamespace(params), of the same shape
resolveNamespace(a, params) ==
  IF Truthy(a.config.allowNamespaceOverwrite)
  THEN IF params.t = "undefined" THEN Thrown("cannot read property namespace of undefined")
       ELSE IF TypeOf(params.namespace) = "string" THEN params.namespace
            ELSE a.config.defaultNamespace
  ELSE a.config.defaultNamespace

\* the path with a sequence kind nested instead of spliced
concatPath_Nested(kind, id) == Arr("path", <<kind, id>>)

\* [].concat(kind, id): an array argument is spliced, any other value appended
concatPath(kind, id) ==
  Arr("path", (IF IsArray(kind) THEN kind.a ELSE <<kind>>) \o (IF IsArray(id) THEN id.a ELSE <<id>>))

\* the {namespace, path} descriptor
PreKey(namespace, path) == [t |-> "prekey", namespace |-> namespace, path |-> path]

\* resolvePreKey(id, kind, params)
resolvePreKey(a, id, kind, params) ==
  LET namespace == resolveNamespace(a, params)
      path == concatPath(kind, id)
  IN IF IsThrown(namespace) THEN namespace
     ELSE IF Truthy(namespace) THEN PreKey(namespace, path)
     ELSE path

-----------------------------------------------------------------------------
(* IdentifierResolver *)

\* the characters of the string literals used as ids
Spelling(s) ==
  CASE s = "" -> <<>>
    [] s = "123" -> <<"1", "2", "3">>
    [] s = "abc" -> <<"a", "b", "c">>
    [] s = " " -> <<" ">>
    [] s = "1.5" -> <<"1", ".", "5">>
    [] s = "1e5" -> <<"1", "e", "5">>
    [] s = "0x10" -> <<"0", "x", "1", "0">>
    [] s = "5634472569470976" ->
         <<"5", "6", "3", "4", "4", "7", "2", "5", "6", "9", "4", "7", "0", "9", "7", "6">>

DecimalDigits == {"0", "1", "2", "3", "4", "5", "6", "7", "8", "9"}

HexDigits == DecimalDigits \cup {"a", "b", "c", "d", "e", "f", "A", "B", "C", "D", "E", "F"}

WhiteSpace == {" ", "\t", "\n", "\r"}

AllIn(cs, S) == \A i \in 1..Len(cs) : cs[i] \in S

\* the position of the first character of cs that is in S, or 0
IndexOf(cs, S) ==
  IF \E i \in 1..Len(cs) : cs[i] \in S
  THEN CHOOSE i \in 1..Len(cs) : cs[i] \in S /\ \A j \in 1..(i - 1) : cs[j] \notin S
  ELSE 0

\* cs without its leading and trailing white space
Trim(cs) ==
  IF AllIn(cs, WhiteSpace) THEN <<>>
  ELSE LET first == CHOOSE i \in 1..Len(cs) :
                      cs[i] \notin WhiteSpace /\ \A j \in 1..(i - 1) : cs[j] \in WhiteSpace
           last == CHOOSE i \in 1..Len(cs) :
                      cs[i] \notin WhiteSpace /\ \A j \in (i + 1)..Len(cs) : cs[j] \in WhiteSpace
       IN SubSeq(cs, first, last)

StripSign(cs) == IF Len(cs) > 0 /\ cs[1] \in {"+", "-"} THEN Tail(cs) ELSE cs

IsDecimalDigits(cs) == Len(cs) > 0 /\ AllIn(cs, DecimalDigits)

\* digits, digits.digits, digits. or .digits
IsMantissa(cs) ==
  LET dot == IndexOf(cs, {"."})
  IN IF dot = 0 THEN IsDecimalDigits(cs)
     ELSE LET int == SubSeq(cs, 1, dot - 1)
              frac == SubSeq(cs, dot + 1, Len(cs))
          IN AllIn(int, DecimalDigits) /\ AllIn(frac, DecimalDigits) /\ Len(int) + Len(frac) > 0

\* StrUnsignedDecimalLiteral: Infinity, or a mantissa with an optional exponent
IsUnsignedDecimal(cs) ==
  \/ cs = <<"I", "n", "f", "i", "n", "i", "t", "y">>
  \/ LET e == IndexOf(cs, {"e", "E"})
     IN IF e = 0 THEN IsMantissa(cs)
        ELSE /\ IsMantissa(SubSeq(cs, 1, e - 1))
             /\ IsDecimalDigits(StripSign(SubSeq(cs, e + 1, Len(cs))))

\* 0x.., 0o.., 0b..
IsRadixLiteral(cs) ==
  /\ Len(cs) > 2
  /\ cs[1] = "0"
  /\ LET rest == SubSeq(cs, 3, Len(cs))
     IN \/ cs[2] \in {"x", "X"} /\ AllIn(rest, HexDigits)
        \/ cs[2] \in {"o", "O"} /\ AllIn(rest, {"0", "1", "2", "3", "4", "5", "6", "7"})
        \/ cs[2] \in {"b", "B"} /\ AllIn(rest, {"0", "1"})

\* ToNumber of the string is a number (not NaN): StringNumericLiteral
StringIsNumeric(cs) ==
  LET body == Trim(cs)
  IN body = <<>> \/ IsRadixLiteral(body) \/ IsUnsignedDecimal(StripSign(body))

\* isNaN(x) for a primitive x
isNaN(x) ==
  CASE x.t = "string" -> ~StringIsNumeric(Spelling(x.s))
    [] x.t = "undefined" -> TRUE
    [] x.t = "null" -> FALSE
    [] x.t = "boolean" -> FALSE
    [] x.t = "number" -> FALSE

\* String(x) for a primitive x, as `+` applies it
ToStr(x) ==
  CASE x.t = "string" -> x.s
    [] x.t = "undefined" -> "undefined"
    [] x.t = "null" -> "null"
    [] x.t = "boolean" -> IF x.b THEN "true" ELSE "false"
    [] x.t = "number" -> ToString(x.n)

\* datastore.int(id): the client's long-integer wrapper of the value
DatastoreInt(id) == [t |-> "int", value |-> id]

\* resolveId(id): the wrapper, or the error string
resolveId(id) ==
  IF ~isNaN(id)
  THEN DatastoreInt(id)
  ELSE Str("Invalid id format, should be a number e.g. 5634472569470976, provided: " \o ToStr(id))

-----------------------------------------------------------------------------
(* Error context and classified errors *)

\* a query mapping with its own property names
Query(keys) == [t |-> "object", keys |-> keys]

\* x !== y is false: same primitive, or the same array or object
StrictEqual(x, y) ==
  IF IsArray(x) /\ IsArray(y) THEN x.ref = y.ref ELSE x = y

\* params.query.hasOwnProperty(): the property looked up is "undefined"
hasOwnPropertyNoArg(q) ==
  CASE q.t = "null" -> Thrown("cannot read property hasOwnProperty of null")
    [] q.t = "object" -> Bool("undefined" \in q.keys)
    [] OTHER -> False

\* the error data object; a field never set is undefined
ErrorData(id, kind, query) == [t |-> "object", id |-> id, kind |-> kind, query |-> query]

\* resolveErrorData(id, kind, params)
resolveErrorData(a, id, kind, params) ==
  LET k == IF ~StrictEqual(kind, a.config.defaultKind) THEN kind ELSE Undef
      has == IF TypeOf(params) # "undefined" /\ TypeOf(params.query) # "undefined"
             THEN hasOwnPropertyNoArg(params.query)
             ELSE False
  IN IF IsThrown(has) THEN has
     ELSE ErrorData(id, k, IF Truthy(has) THEN params.query ELSE Undef)

\* new errors.<name>(message, data)
FeathersError(name, message, data) ==
  [t |-> "error", name |-> name, message |-> message, data |-> data]

\* the error a raised exception carries
RaisedError(thrown) == FeathersError(thrown.error, Str(thrown.what), Undef)

-----------------------------------------------------------------------------
(* EntityService: get *)

\* datastore.key(descriptor)
DatastoreKey(descriptor) == [t |-> "key", descriptor |-> descriptor]

\* one invocation of the promise's resolve or reject
Settle(how, value) == [t |-> "settle", how |-> how, value |-> value]

\* a get call: what the executor did, and the store request's state
\* (store: "none" no request, "pending", "fulfilled", "rejected")
Call(id, params, keyArgs, requests, settles, store) ==
  [id |-> id, params |-> params, keyArgs |-> keyArgs, requests |-> requests,
   settles |-> settles, store |-> store]

\* the executor stopped by an exception: the promise machinery rejects with it
Raised(id, params, settles, thrown) ==
  Call(id, params, <<>>, <<>>, Append(settles, Settle("reject", RaisedError(thrown))), "none")

\* the request issued a second time
getRequest_Twice(a, id, params, processedId, settles) ==
  LET kind == resolveKind(a, params)
      preKey == IF IsThrown(kind) THEN kind ELSE resolvePreKey(a, processedId, kind, params)
  IN IF IsThrown(preKey) THEN Raised(id, params, settles, preKey)
     ELSE Call(id, params, <<preKey>>, <<DatastoreKey(preKey), DatastoreKey(preKey)>>,
               settles, "pending")

\* lines 699-705: resolve the kind, build the key, issue the request
getRequest(a, id, params, processedId, settles) ==
  LET kind == resolveKind(a, params)
      preKey == IF IsThrown(kind) THEN kind ELSE resolvePreKey(a, processedId, kind, params)
  IN IF IsThrown(preKey) THEN Raised(id, params, settles, preKey)
     ELSE Call(id, params, <<preKey>>, <<DatastoreKey(preKey)>>, settles, "pending")

\* lines 685-705: the promise executor of get(id, params).  The rejection of
\* an invalid id is not followed by a return: the executor goes on.
getExecutor(a, id, params) ==
  LET processedId == resolveId(id)
  IN IF TypeOf(processedId) = "string"
     THEN LET kind == resolveKind(a, params)
              data == IF IsThrown(kind) THEN kind ELSE resolveErrorData(a, id, kind, params)
          IN IF IsThrown(data) THEN Raised(id, params, <<>>, data)
             ELSE getRequest(a, id, params, processedId,
                             <<Settle("reject", FeathersError("BadRequest", processedId, data))>>)
     ELSE getRequest(a, id, params, processedId, <<>>)

\* the kind the handlers of a call close over
callKind(a, c) == resolveKind(a, c.params)

\* a handler that builds an error: reject with it, or raise while building it
rejectWith(a, c, name, message) ==
  LET data == resolveErrorData(a, c.id, callKind(a, c), c.params)
  IN IF IsThrown(data) THEN data
     ELSE Settle("reject", FeathersError(name, Str(message), data))

\* the catch handler with id, kind and params kept in one place for all
\* calls: it reads those of the latest call
onRejected_SharedContext(a, c) ==
  LET r == rejectWith(a, calls[Len(calls)], "GeneralError",
                      "Datastore returned error while requesting entity.")
  IN IF IsThrown(r) THEN c.settles ELSE Append(c.settles, r)

\* lines 720-728: the catch handler; raising in it leaves the promise alone
onRejected(a, c) ==
  LET r == rejectWith(a, c, "GeneralError", "Datastore returned error while requesting entity.")
  IN IF IsThrown(r) THEN c.settles ELSE Append(c.settles, r)

\* lines 706-719: the then handler; what it raises goes to the catch handler
onFulfilled(a, c, result) ==
  IF Len(result.a) > 1 \/ (Len(result.a) = 1 /\ TypeOf(result.a[1]) # "undefined")
  THEN Append(c.settles, Settle("resolve", result))
  ELSE LET r == rejectWith(a, c, "NotFound", "Requested entity does not exist.")
       IN IF IsThrown(r) THEN onRejected(a, c) ELSE Append(c.settles, r)

\* the state of the promise get returned: its first settlement stands
PromiseState(c) ==
  IF c.settles = <<>> THEN "pending"
  ELSE IF c.settles[1].how = "resolve" THEN "resolved" ELSE "rejected"

PromiseValue(c) == c.settles[1].value

-----------------------------------------------------------------------------
(* Resolver cases: construction, then the resolvers applied to every params *)

NoRet == [fn |-> "none"]

Ret(fn, params, value) == [fn |-> fn, params |-> params, value |-> value]

InitCommon ==
  /\ constructed = FALSE
  /\ adapter = AdapterLiteral
  /\ clientLog = <<>>
  /\ ret = NoRet
  /\ calls = <<>>

InitResolve ==
  /\ \/ options \in CredentialOptions /\ env \in EnvValues
     \/ options \in AccessOptions /\ env = Env(Undef, Undef)
  /\ InitCommon

ResolveKindCall ==
  /\ constructed
  /\ \E p \in ParamsValues : ret' = Ret("resolveKind", p, resolveKind(adapter, p))
  /\ UNCHANGED <<options, env, constructed, adapter, clientLog, calls>>

ResolveNamespaceCall ==
  /\ constructed
  /\ \E p \in ParamsValues : ret' = Ret("resolveNamespace", p, resolveNamespace(adapter, p))
  /\ UNCHANGED <<options, env, constructed, adapter, clientLog, calls>>

NextResolve == Construct \/ ResolveKindCall \/ ResolveNamespaceCall

SpecResolve == InitResolve /\ [][NextResolve]_vars

-----------------------------------------------------------------------------
(* The adapter's life: construction, get calls, the store's answers *)

\* the number of get calls of a run
MaxCalls == 2

Company == Str("Company")

Tag == Str("Tag")

\* an entity the store holds
Entity == [t |-> "object", keys |-> {"name"}]

LifecycleOptions ==
  {Undef} \cup
  {Options(ModelOptions(Str("proj"), Str("key.json"), Undef), dk, ako, dn, ano) :
     dk \in {Undef, Tag, Arr("opt", <<Company, Tag>>)}, ako \in {Undef, True},
     dn \in {Undef, Str("NS1")}, ano \in {Undef, True}}

GetIds == {Str("123"), Str("abc")}

GetParams ==
  {Undef, Params(Undef, Undef, Undef), Params(Str("Other"), Str("NS2"), Undef),
   Params(Arr("par", <<Company, Tag>>), Undef, Query({"name"}))}

\* what the store's get-by-key promise is fulfilled with
StoreResults ==
  {Arr("res", <<>>), Arr("res", <<Undef>>), Arr("res", <<Entity>>),
   Arr("res", <<Entity, Undef>>)}

Init ==
  /\ options \in LifecycleOptions
  /\ env = Env(Undef, Undef)
  /\ InitCommon

\* get(id, params): the promise executor runs to its end within the call
Get ==
  /\ constructed
  /\ Len(calls) < MaxCalls
  /\ \E id \in GetIds, params \in GetParams :
        calls' = Append(calls, getExecutor(adapter, id, params))
  /\ UNCHANGED <<options, env, constructed, adapter, clientLog, ret>>

\* the store fulfils the request of call i: the then handler runs
StoreFulfil ==
  \E i \in 1..Len(calls), result \in StoreResults :
     /\ calls[i].store = "pending"
     /\ calls' = [calls EXCEPT ![i].store = "fulfilled",
                               ![i].settles = onFulfilled(adapter, calls[i], result)]
     /\ UNCHANGED <<options, env, constructed, adapter, clientLog, ret>>

\* the store rejects the request of call i: the catch handler runs
StoreReject ==
  \E i \in 1..Len(calls) :
     /\ calls[i].store = "pending"
     /\ calls' = [calls EXCEPT ![i].store = "rejected",
                               ![i].settles = onRejected(adapter, calls[i])]
     /\ UNCHANGED <<options, env, constructed, adapter, clientLog, ret>>

Next == Construct \/ Get \/ StoreFulfil \/ StoreReject

Spec == Init /\ [][Next]_vars

-----------------------------------------------------------------------------
(* Helper cases: resolvePreKey, resolveId and resolveErrorData applied *)

\* the ids resolveId is applied to
IdValues ==
  {Undef, Null, True, False, Str(""), Str(" "), Str("123"), Str("5634472569470976"),
   Str("abc"), Str("1.5"), Str("1e5"), Str("0x10")}

\* the id and kind arguments resolvePreKey is applied to
PreKeyIds == {Num(123), Str("5634472569470976"), DatastoreInt(Str("123"))}

PreKeyKinds == {False, Tag, Company, Arr("opt", <<Company, Tag>>)}

\* params of the pre-key cases: only namespace varies
PreKeyParams ==
  {Undef} \cup {Params(Undef, n, Undef) : n \in ParamNamespaceValues}

QueryValues == {Undef, Null, Query({}), Query({"name"})}

\* params of the error-context cases: kind and query vary
ErrorParams ==
  {Undef} \cup {Params(k, Undef, q) : k \in ParamKindValues, q \in QueryValues}

RetPreKey(id, kind, params, value) ==
  [fn |-> "resolvePreKey", id |-> id, kind |-> kind, params |-> params, value |-> value]

RetId(id, value) == [fn |-> "resolveId", id |-> id, value |-> value]

RetErrorData(id, kind, params, value) ==
  [fn |-> "resolveErrorData", id |-> id, kind |-> kind, params |-> params, value |-> value]

InitHelpers ==
  /\ options \in AccessOptions
  /\ env = Env(Undef, Undef)
  /\ InitCommon

ResolvePreKeyCall ==
  /\ constructed
  /\ \E id \in PreKeyIds, kind \in PreKeyKinds, p \in PreKeyParams :
        ret' = RetPreKey(id, kind, p, resolvePreKey(adapter, id, kind, p))
  /\ UNCHANGED <<options, env, constructed, adapter, clientLog, calls>>

ResolveIdCall ==
  /\ constructed
  /\ \E id \in IdValues : ret' = RetId(id, resolveId(id))
  /\ UNCHANGED <<options, env, constructed, adapter, clientLog, calls>>

\* resolveErrorData as get calls it: with the kind resolveKind returned
ResolveErrorDataCall ==
  /\ constructed
  /\ \E id \in {Str("abc")}, p \in ErrorParams :
        LET kind == resolveKind(adapter, p)
        IN /\ ~IsThrown(kind)
           /\ ret' = RetErrorData(id, kind, p, resolveErrorData(adapter, id, kind, p))
  /\ UNCHANGED <<options, env, constructed, adapter, clientLog, calls>>

NextHelpers == Construct \/ ResolvePreKeyCall \/ ResolveIdCall \/ ResolveErrorDataCall

SpecHelpers == InitHelpers /\ [][NextHelpers]_vars

-----------------------------------------------------------------------------
(* get observed: any params.query, and the store's answer kept beside the call *)

\* the number of get calls of an observed run
MaxGets == 1

\* params of the observed calls: those of GetParams, a null and an empty query
ObservedParams ==
  GetParams \cup {Params(Undef, Undef, Null), Params(Undef, Undef, Query({}))}

\* the error the store's get-by-key promise is rejected with
BackendError == [t |-> "error", name |-> "Error", message |-> Str("14 UNAVAILABLE"), data |-> Undef]

\* the last answer of the store: to which call, how, and with what
RetStore(i, how, value) == [fn |-> "store", call |-> i, how |-> how, value |-> value]

ObservedGet ==
  /\ constructed
  /\ Len(calls) < MaxGets
  /\ \E id \in GetIds, params \in ObservedParams :
        calls' = Append(calls, getExecutor(adapter, id, params))
  /\ UNCHANGED <<options, env, constructed, adapter, clientLog, ret>>

\* the store fulfils the request of call i with result
ObservedFulfil ==
  \E i \in 1..Len(calls), result \in StoreResults :
     /\ calls[i].store = "pending"
     /\ calls' = [calls EXCEPT ![i].store = "fulfilled",
                               ![i].settles = onFulfilled(adapter, calls[i], result)]
     /\ ret' = RetStore(i, "fulfilled", result)
     /\ UNCHANGED <<options, env, constructed, adapter, clientLog>>

\* the store rejects the request of call i with an error of its own
ObservedReject ==
  \E i \in 1..Len(calls) :
     /\ calls[i].store = "pending"
     /\ calls' = [calls EXCEPT ![i].store = "rejected",
                               ![i].settles = onRejected(adapter, calls[i])]
     /\ ret' = RetStore(i, "rejected", BackendError)
     /\ UNCHANGED <<options, env, constructed, adapter, clientLog>>

NextGet == Construct \/ ObservedGet \/ ObservedFulfil \/ ObservedReject

SpecGet == Init /\ [][NextGet]_vars

-----------------------------------------------------------------------------
(* The service: get, the five operations not written yet, and setup *)

\* the feathers app handed to setup
App == [t |-> "object", keys |-> {"service"}]

\* setup which also puts adapter.config back to the literal's
setup_ResetsConfig(a, app, path) ==
  [a EXCEPT !.app = app, !.path = path, !.config = AdapterLiteral.config]

\* setup(app, path)
setup(a, app, path) == [a EXCEPT !.app = app, !.path = path]

\* params of the calls of the service
ServiceParams == {Undef, Params(Str("Other"), Str("NS2"), Query({"name"}))}

\* an operation with an empty body returned: its result is undefined
RetStub(fn) == [fn |-> fn, value |-> Undef]

StubNames == {"find", "create", "update", "patch", "remove"}

ServiceGet ==
  /\ constructed
  /\ Len(calls) < MaxGets
  /\ \E id \in GetIds, params \in ServiceParams :
        calls' = Append(calls, getExecutor(adapter, id, params))
  /\ UNCHANGED <<options, env, constructed, adapter, clientLog, ret>>

\* find(params): the body is empty
Find ==
  /\ constructed
  /\ \E params \in ServiceParams : ret' = RetStub("find")
  /\ UNCHANGED <<options, env, constructed, adapter, clientLog, calls>>

\* create(data, params): the body is empty
Create ==
  /\ constructed
  /\ \E data \in {Entity}, params \in ServiceParams : ret' = RetStub("create")
  /\ UNCHANGED <<options, env, constructed, adapter, clientLog, calls>>

\* update(id, data, params): the body is empty
Update ==
  /\ constructed
  /\ \E id \in GetIds, data \in {Entity}, params \in ServiceParams : ret' = RetStub("update")
  /\ UNCHANGED <<options, env, constructed, adapter, clientLog, calls>>

\* patch(id, data, params): the body is empty
Patch ==
  /\ constructed
  /\ \E id \in GetIds, data \in {Entity}, params \in ServiceParams : ret' = RetStub("patch")
  /\ UNCHANGED <<options, env, constructed, adapter, clientLog, calls>>

\* remove(id, params): the body is empty
Remove ==
  /\ constructed
  /\ \E id \in GetIds, params \in ServiceParams : ret' = RetStub("remove")
  /\ UNCHANGED <<options, env, constructed, adapter, clientLog, calls>>

Setup ==
  /\ constructed
  /\ \E app \in {App}, path \in {Str("messages")} : adapter' = setup(adapter, app, path)
  /\ UNCHANGED <<options, env, constructed, clientLog, ret, calls>>

NextService ==
  \/ Construct
  \/ ServiceGet
  \/ StoreFulfil
  \/ StoreReject
  \/ Find
  \/ Create
  \/ Update
  \/ Patch
  \/ Remove
  \/ Setup

SpecService == Init /\ [][NextService]_vars

-----------------------------------------------------------------------------
(* Claims on credential resolution *)

ModelGiven == TypeOf(options) # "undefined" /\ TypeOf(options.model) # "undefined"

\* NoConfig
IsNoConfig(c) == c = False

\* projectId plus exactly one of keyFilename and credentials
IsFullConfig(c) ==
  /\ c.t = "config"
  /\ TypeOf(c.projectId) = "string" /\ Truthy(c.projectId)
  /\ (c.keyFilename # Undef) # (c.credentials # Undef)
  /\ c.keyFilename # Undef => TypeOf(c.keyFilename) = "string" /\ Truthy(c.keyFilename)
  /\ c.credentials # Undef =>
       /\ c.credentials.t = "object"
       /\ c.credentials.client_email # Undef
       /\ c.credentials.private_key # Undef

CompleteCredentials(c) ==
  /\ c.t = "object"
  /\ c.client_email # Undef
  /\ c.private_key # Undef

\* C1 (as claimed): with an explicit project id, no keyFilename option, no
\* GOOGLE_APPLICATION_CREDENTIALS and complete credentials, the resolved
\* config is {projectId, credentials}.
C1_CompleteCredentialsGiveConfig ==
  (/\ constructed
   /\ ModelGiven
   /\ Truthy(options.model.projectId)
   /\ options.model.keyFilename = Undef
   /\ env.GOOGLE_APPLICATION_CREDENTIALS = Undef
   /\ CompleteCredentials(options.model.credentials))
  => adapter.datastoreConfig = Config(options.model.projectId, Undef, options.model.credentials)

C3_NoProjectNoConfig ==
  (/\ constructed
   /\ ModelGiven
   /\ ~Truthy(options.model.projectId)
   /\ env.GCLOUD_PROJECT = Undef)
  => IsNoConfig(adapter.datastoreConfig)

C3_Witness ==
  /\ constructed
  /\ ModelGiven
  /\ options.model.projectId = Str("")
  /\ env.GCLOUD_PROJECT = Undef
  /\ Truthy(options.model.keyFilename)
  /\ Truthy(env.GOOGLE_APPLICATION_CREDENTIALS)
  /\ CompleteCredentials(options.model.credentials)
  /\ IsNoConfig(adapter.datastoreConfig)

\* C4: for projectId and for keyFilename a truthy option wins over the
\* environment variable, which is used only when the option is absent or
\* falsy; the result is then exactly {projectId, keyFilename}, without
\* credentials even when options.credentials is supplied.
C4_ExplicitBeforeEnvironment ==
  (constructed /\ ModelGiven) =>
     LET p == IF Truthy(options.model.projectId)
              THEN options.model.projectId ELSE env.GCLOUD_PROJECT
         k == IF Truthy(options.model.keyFilename)
              THEN options.model.keyFilename ELSE env.GOOGLE_APPLICATION_CREDENTIALS
     IN (Truthy(p) /\ Truthy(k)) => adapter.datastoreConfig = Config(p, k, Undef)

C4_Witness ==
  /\ constructed
  /\ ModelGiven
  /\ options.model.projectId = Str("proj")
  /\ options.model.keyFilename = Str("key.json")
  /\ env = Env(Str("envproj"), Str("envkey.json"))
  /\ CompleteCredentials(options.model.credentials)
  /\ adapter.datastoreConfig = Config(Str("proj"), Str("key.json"), Undef)

-----------------------------------------------------------------------------
(* Claims on access-config resolution *)

\* C6: each overwrite flag is true iff its option is truthy; without options
\* the access config is all absent/false.
C6_FlagsIffTruthy ==
  constructed =>
    IF TypeOf(options) = "undefined"
    THEN adapter.config = AccessConfig(False, False, False, False)
    ELSE /\ adapter.config.allowKindOverwrite \in {True, False}
         /\ adapter.config.allowKindOverwrite = True <=> Truthy(options.allowKindOverwrite)
         /\ adapter.config.allowNamespaceOverwrite \in {True, False}
         /\ adapter.config.allowNamespaceOverwrite = True
              <=> Truthy(options.allowNamespaceOverwrite)

C6_Witness ==
  /\ constructed
  /\ TypeOf(options) # "undefined"
  /\ options.allowKindOverwrite = Str("yes")
  /\ options.allowNamespaceOverwrite = False
  /\ adapter.config.allowKindOverwrite = True
  /\ adapter.config.allowNamespaceOverwrite = False

\* the kind-validity predicate as the specification words it: a non-empty
\* string, or a non-empty sequence of strings
StatedValidKind(kind) ==
  \/ TypeOf(kind) = "string" /\ kind.s # ""
  \/ /\ IsArray(kind)
     /\ Len(kind.a) # 0
     /\ \A i \in 1..Len(kind.a) : TypeOf(kind.a[i]) = "string"

\* C7 (as claimed): defaultKind is options.defaultKind when that is a
\* non-empty string or a non-empty sequence of strings, and absent for every
\* other value.
C7_DefaultKindOnlyIfValid ==
  (constructed /\ TypeOf(options) # "undefined") =>
     adapter.config.defaultKind =
        IF StatedValidKind(options.defaultKind) THEN options.defaultKind ELSE False

\* C8 (as claimed): resolveKind(params) returns params.kind when
\* allowKindOverwrite is true and params.kind is present and valid, and the
\* configured defaultKind in every other case.
C8_ResolveKindRule ==
  ret.fn = "resolveKind" =>
     ret.value =
        IF /\ adapter.config.allowKindOverwrite = True
           /\ ret.params # Undef
           /\ ret.params.kind # Undef
           /\ StatedValidKind(ret.params.kind)
        THEN ret.params.kind
        ELSE adapter.config.defaultKind

\* C9 (as claimed): resolveNamespace(params) returns params.namespace when
\* allowNamespaceOverwrite is true and params.namespace is a string, and the
\* configured defaultNamespace in every other case.
C9_ResolveNamespaceRule ==
  ret.fn = "resolveNamespace" =>
     ret.value =
        IF /\ adapter.config.allowNamespaceOverwrite = True
           /\ ret.params # Undef
           /\ TypeOf(ret.params.namespace) = "string"
        THEN ret.params.namespace
        ELSE adapter.config.defaultNamespace

-----------------------------------------------------------------------------
(* Claims on the authorization boundary *)

\* built without opting in to either overwrite
NotOptedIn ==
  /\ constructed
  /\ \/ TypeOf(options) = "undefined"
     \/ ~Truthy(options.allowKindOverwrite) /\ ~Truthy(options.allowNamespaceOverwrite)

\* the path of a key descriptor, and its namespace (undefined for a bare path)
DescriptorPath(d) == IF d.t = "prekey" THEN d.path.a ELSE d.a

DescriptorNamespace(d) == IF d.t = "prekey" THEN d.namespace ELSE Undef

\* the kind segments of a path: all but the id that ends it
KindSegments(path) == SubSeq(path, 1, Len(path) - 1)

\* C10: without opting in, every get call hands the store one key whose kind
\* segments are defaultKind and whose namespace is defaultNamespace (or
\* absent), so two calls with the same id hand over the same key whatever
\* their params.kind and params.namespace.
C10_AuthorizationBoundary ==
  NotOptedIn =>
    /\ \A i \in 1..Len(calls) :
         LET c == calls[i]
             dk == adapter.config.defaultKind
             dn == adapter.config.defaultNamespace
         IN /\ Len(c.keyArgs) = 1
            /\ c.requests = <<DatastoreKey(c.keyArgs[1])>>
            /\ KindSegments(DescriptorPath(c.keyArgs[1])) = (IF IsArray(dk) THEN dk.a ELSE <<dk>>)
            /\ DescriptorNamespace(c.keyArgs[1]) = (IF Truthy(dn) THEN dn ELSE Undef)
    /\ \A i, j \in 1..Len(calls) :
         calls[i].id = calls[j].id => calls[i].requests = calls[j].requests

C10_Witness ==
  /\ NotOptedIn
  /\ adapter.config.defaultKind = Tag
  /\ adapter.config.defaultNamespace = Str("NS1")
  /\ Len(calls) = 2
  /\ calls[1].id = Str("123")
  /\ calls[2].id = Str("123")
  /\ calls[1].params = Params(Str("Other"), Str("NS2"), Undef)
  /\ calls[2].params = Params(Arr("par", <<Company, Tag>>), Undef, Query({"name"}))
  /\ calls[1].requests = calls[2].requests
  /\ calls[1].keyArgs = <<PreKey(Str("NS1"), Arr("path", <<Tag, DatastoreInt(Str("123"))>>))>>

-----------------------------------------------------------------------------
(* Claims on the key descriptor and the identifier *)

\* C11: resolvePreKey builds the path as the kind segments in order followed
\* by the id, a sequence kind spliced; with the namespace resolveNamespace
\* returned it gives {namespace, path} when that namespace is a non-empty
\* string and the bare path otherwise.
C11_PreKeyShape ==
  ret.fn = "resolvePreKey" =>
    LET namespace == resolveNamespace(adapter, ret.params)
        path == Arr("path", (IF IsArray(ret.kind) THEN ret.kind.a ELSE <<ret.kind>>) \o <<ret.id>>)
    IN ~IsThrown(namespace) =>
         ret.value = IF TypeOf(namespace) = "string" /\ namespace.s # ""
                     THEN PreKey(namespace, path)
                     ELSE path

C11_Witness ==
  /\ ret.fn = "resolvePreKey"
  /\ ret.id = Num(123)
  /\ ret.kind = Arr("opt", <<Company, Tag>>)
  /\ ret.params = Params(Undef, Undef, Undef)
  /\ ret.value = PreKey(Str("NS1"), Arr("path", <<Company, Tag, Num(123)>>))

\* a string of decimal digits
IsDecimalDigitString(id) == TypeOf(id) = "string" /\ IsDecimalDigits(Spelling(id.s))

\* C12 (as claimed): resolveId never raises; it returns the long-integer
\* wrapper of id if and only if id is a string of decimal digits, and the
\* invalid-format message ending in the offending literal for every other id.
C12_ValidIffDecimalDigits ==
  ret.fn = "resolveId" =>
    /\ ~IsThrown(ret.value)
    /\ ret.value =
         IF IsDecimalDigitString(ret.id)
         THEN DatastoreInt(ret.id)
         ELSE Str("Invalid id format, should be a number e.g. 5634472569470976, provided: "
                  \o ToStr(ret.id))

-----------------------------------------------------------------------------
(* Claims on the outcomes of get *)

\* resolveId reports the id invalid
InvalidId(id) == TypeOf(resolveId(id)) = "string"

\* C13 (as claimed): a get call with an id resolveId reports invalid is
\* rejected with BadRequest, the resolveId message and an error context
\* holding the id, whatever the store answers afterwards.
C13_InvalidIdIsBadRequest ==
  \A i \in 1..Len(calls) :
     LET c == calls[i]
     IN InvalidId(c.id) =>
          /\ PromiseState(c) = "rejected"
          /\ PromiseValue(c).name = "BadRequest"
          /\ PromiseValue(c).message = resolveId(c.id)
          /\ PromiseValue(c).data.t = "object"
          /\ PromiseValue(c).data.id = c.id

\* the store answered a call with a valid id
AnsweredValid(how) ==
  /\ ret.fn = "store"
  /\ ret.how = how
  /\ ~InvalidId(calls[ret.call].id)

\* C14 (as claimed): when the store fulfils the request of a call with a
\* valid id with R, the promise resolves with R if R has more than one
\* element or one element that is not undefined, and is rejected with
\* NotFound and an error context holding the id otherwise.
C14_FoundIffDefinedElement ==
  AnsweredValid("fulfilled") =>
    LET c == calls[ret.call]
        R == ret.value
    IN IF Len(R.a) > 1 \/ (Len(R.a) = 1 /\ R.a[1] # Undef)
       THEN PromiseState(c) = "resolved" /\ PromiseValue(c) = R
       ELSE /\ PromiseState(c) = "rejected"
            /\ PromiseValue(c).name = "NotFound"
            /\ PromiseValue(c).data.t = "object"
            /\ PromiseValue(c).data.id = c.id

\* C15 (as claimed): when the store rejects the request of a call with a
\* valid id, the promise is rejected with GeneralError, the fixed message and
\* an error context holding the id; the store's error is neither the
\* rejection value nor its data.
C15_BackendFailureIsGeneralError ==
  AnsweredValid("rejected") =>
    LET c == calls[ret.call]
    IN /\ PromiseState(c) = "rejected"
       /\ PromiseValue(c).name = "GeneralError"
       /\ PromiseValue(c).message = Str("Datastore returned error while requesting entity.")
       /\ PromiseValue(c).data.t = "object"
       /\ PromiseValue(c).data.id = c.id
       /\ PromiseValue(c) # ret.value
       /\ PromiseValue(c).data # ret.value

\* the classifications a get call may be rejected with
Classified == {"BadRequest", "NotFound", "GeneralError"}

\* C16 (as claimed): a get call whose store request has settled is settled
\* itself, and no get call is ever rejected with an error outside the three
\* classifications.
C16_SettlesClassified ==
  \A i \in 1..Len(calls) :
     LET c == calls[i]
     IN /\ c.store \in {"fulfilled", "rejected"} => PromiseState(c) # "pending"
        /\ PromiseState(c) = "rejected" => PromiseValue(c).name \in Classified

\* C17: a get call builds at most one key and issues at most one request,
\* and no step after the call adds or replaces a request or a key.
C17_OneKeyOneRequest ==
  [][\A i \in 1..Len(calls') :
       /\ Len(calls'[i].keyArgs) <= 1
       /\ Len(calls'[i].requests) <= 1
       /\ i <= Len(calls) =>
            /\ calls'[i].keyArgs = calls[i].keyArgs
            /\ calls'[i].requests = calls[i].requests]_vars

C17_Witness ==
  /\ Len(calls) = 1
  /\ calls[1].store = "rejected"
  /\ Len(calls[1].keyArgs) = 1
  /\ Len(calls[1].requests) = 1
  /\ PromiseState(calls[1]) = "rejected"
  /\ PromiseValue(calls[1]).name = "GeneralError"

-----------------------------------------------------------------------------
(* Claims on the error context *)

\* the same string, or sequences with the same elements
SameValue(x, y) == IF IsArray(x) /\ IsArray(y) THEN x.a = y.a ELSE x = y

\* C18 (as claimed): the error context holds the caller's id, and holds no
\* kind when the resolved kind has the value of defaultKind, be it a string
\* or a sequence with the same elements.
C18_KindOnlyIfNotDefault ==
  (ret.fn = "resolveErrorData" /\ ~IsThrown(ret.value)) =>
    /\ ret.value.id = ret.id
    /\ SameValue(ret.kind, adapter.config.defaultKind) => ret.value.kind = Undef
    /\ ret.value.kind # Undef => ret.value.kind = ret.kind

\* a mapping with at least one property
NonEmptyMapping(q) == q.t = "object" /\ q.keys # {}

\* C19 (as claimed): building the error context never raises; the context
\* holds a query only if params.query is a non-empty mapping, and none when
\* params is omitted or params.query is absent or an empty mapping.
C19_QueryOnlyIfNonEmpty ==
  ret.fn = "resolveErrorData" =>
    /\ ~IsThrown(ret.value)
    /\ ret.value.query # Undef =>
         /\ ret.params # Undef
         /\ NonEmptyMapping(ret.params.query)
         /\ ret.value.query = ret.params.query
    /\ (ret.params = Undef \/ ret.params.query = Undef \/ ret.params.query = Query({})) =>
         ret.value.query = Undef

-----------------------------------------------------------------------------
(* Claims on what the operations leave alone *)

\* C20: after construction no step changes adapter.config, the store client
\* or the constructions of it; a step changes at most app and path of the
\* adapter, and such a step (setup) issues no request; a step of the five
\* empty operations changes neither the adapter nor the calls; so the three
\* key resolvers give the same outputs before and after every step.
C20_FrameAfterConstruction ==
  [][constructed =>
       /\ adapter'.config = adapter.config
       /\ adapter'.datastore = adapter.datastore
       /\ adapter'.datastoreConfig = adapter.datastoreConfig
       /\ clientLog' = clientLog
       /\ adapter' = [adapter EXCEPT !.app = adapter'.app, !.path = adapter'.path]
       /\ adapter' # adapter => calls' = calls
       /\ (ret' # ret /\ ret'.fn \in StubNames) => (adapter' = adapter /\ calls' = calls)
       /\ adapter' # adapter => \A p \in PreKeyParams \cup GetParams :
            /\ resolveKind(adapter', p) = resolveKind(adapter, p)
            /\ resolveNamespace(adapter', p) = resolveNamespace(adapter, p)
            /\ \A id \in PreKeyIds, kind \in PreKeyKinds :
                 resolvePreKey(adapter', id, kind, p) = resolvePreKey(adapter, id, kind, p)]_vars

C20_Witness ==
  /\ constructed
  /\ adapter.config.defaultKind = Tag
  /\ adapter.config.allowKindOverwrite = True
  /\ adapter.app = App
  /\ adapter.path = Str("messages")
  /\ ret.fn = "remove"
  /\ Len(calls) = 1
  /\ calls[1].store = "fulfilled"
  /\ clientLog = <<adapter.datastore.args>>

-----------------------------------------------------------------------------
(* Claims on outstanding calls, on stopping after a rejection, on omitted params *)

\* the settled state of a call, the store's own result left out
Outcome(c) ==
  IF PromiseState(c) = "pending" THEN <<"pending">>
  ELSE IF PromiseState(c) = "resolved" THEN <<"resolved">>
  ELSE <<"rejected", PromiseValue(c)>>

\* C21: with several get calls outstanding, a call the store has not
\* answered is as its own executor left it, whatever was answered to the
\* others; a value a call resolves with is a result of the store, an error it
\* is rejected with carries its own id; and two calls with the same id and
\* params have the same key and request and, answered the same way and both
\* rejected, the same error.
C21_CallsIndependent ==
  /\ \A i \in 1..Len(calls) :
       LET c == calls[i]
       IN /\ c.store \in {"none", "pending"} => c = getExecutor(adapter, c.id, c.params)
          /\ PromiseState(c) = "resolved" => PromiseValue(c) \in StoreResults
          /\ (PromiseState(c) = "rejected" /\ PromiseValue(c).name \in Classified) =>
               PromiseValue(c).data.id = c.id
  /\ \A i, j \in 1..Len(calls) :
       (calls[i].id = calls[j].id /\ calls[i].params = calls[j].params) =>
         /\ calls[i].keyArgs = calls[j].keyArgs
         /\ calls[i].requests = calls[j].requests
         /\ (/\ calls[i].store = calls[j].store
             /\ PromiseState(calls[i]) = PromiseState(calls[j])) =>
              Outcome(calls[i]) = Outcome(calls[j])

C21_Witness ==
  /\ Len(calls) = 2
  /\ calls[1].id = Str("123")
  /\ calls[2].id = Str("abc")
  /\ calls[1].store = "rejected"
  /\ calls[2].store = "fulfilled"
  /\ PromiseValue(calls[1]).name = "GeneralError"
  /\ PromiseValue(calls[1]).data.id = Str("123")
  /\ PromiseValue(calls[2]).name = "BadRequest"

\* C22 (as claimed): a get call with an id resolveId reports invalid builds
\* no key, issues no request, and invokes resolve or reject at most once.
C22_InvalidIdStops ==
  \A i \in 1..Len(calls) :
     InvalidId(calls[i].id) =>
       /\ calls[i].keyArgs = <<>>
       /\ calls[i].requests = <<>>
       /\ Len(calls[i].settles) <= 1

\* C23 (as claimed): a get call without params raises nothing and hands the
\* store the key descriptor, and has the settled state, of the same call
\* with an empty params object.
C23_OmittedParamsAsEmpty ==
  \A i \in 1..Len(calls) :
     LET c == calls[i]
         e == getExecutor(adapter, c.id, Params(Undef, Undef, Undef))
     IN c.params = Undef =>
          /\ PromiseState(c) = "rejected" => PromiseValue(c).name \in Classified
          /\ c.keyArgs = e.keyArgs
          /\ c.requests = e.requests
          /\ c.store \in {"none", "pending"} => c.settles = e.settles

====
